---- MODULE Spec2Model ----
(***************************************************************************)
(* Season points pipeline of ncc-autox-components.                         *)
(*                                                                         *)
(* Two scripts share the pipeline:                                         *)
(*   season 1  src/unnamed/part_000  (DATA_DIR '2024-data')                *)
(*   season 2  src/index.js          (DATA_DIR '2025-data')                *)
(*                                                                         *)
(* A JavaScript string is a sequence of one-character strings, so that     *)
(* trim, split, toLowerCase and the regular expressions are computed on    *)
(* the characters.  A JavaScript object is a sequence of [k, v] records in *)
(* insertion order, which is the order Object.keys iterates (no key of the *)
(* pipeline is a canonical array index: class names start with a non-digit *)
(* and driver names hold no digit).                                        *)
(***************************************************************************)
EXTENDS Integers, Sequences, FiniteSets, Bags, TLC

VARIABLES
    season,          \* 1: part_000, 2: index.js
    caseSensitiveFS, \* whether the file system distinguishes letter case
    dir,             \* the entries of DATA_DIR, in readdir order
    keep,            \* dropLowest's second argument
    pc,              \* position of main
    idx,             \* readData's loop index i (1-based)
    parsed,          \* what the last parseFile call returned
    allData,         \* readData's toReturn, then main's allData
    classResults,    \* main's classResults
    output,          \* output.csv as written by exportToCsv
    exitCode,        \* argument of process.exit, -1 while running
    calls,           \* history: one record per loop iteration of readData
    arg              \* history: the argument of the last stage called by main

vars == <<season, caseSensitiveFS, dir, keep, pc, idx, parsed, allData,
          classResults, output, exitCode, calls, arg>>

----------------------------------------------------------------------------
(* Bounds of the model *)

MaxFiles == 2
MaxLines == 3
MaxEvents == 3
MaxLen == 5
MaxKeep == 5
MaxDrivers == 3

----------------------------------------------------------------------------
(* Characters and strings *)

DigitChars == {"0", "1", "2", "3", "4", "5", "6", "7", "8", "9"}

IsDigit(c) == c \in DigitChars

\* String.prototype.trim strips white space; the inputs use blank and tab.
WhiteSpace == {" ", "\t"}

UPPER == <<"A","B","C","D","E","F","G","H","I","J","K","L","M",
           "N","O","P","Q","R","S","T","U","V","W","X","Y","Z">>
LOWER == <<"a","b","c","d","e","f","g","h","i","j","k","l","m",
           "n","o","p","q","r","s","t","u","v","w","x","y","z">>

LowerChar(c) ==
    IF \E i \in 1..26 : UPPER[i] = c
    THEN LOWER[CHOOSE i \in 1..26 : UPPER[i] = c]
    ELSE c

toLowerCase(s) == [i \in 1..Len(s) |-> LowerChar(s[i])]

\* s.slice(from - 1, to) in 1-based inclusive positions
Slice(s, from, to) == IF from > to THEN <<>> ELSE SubSeq(s, from, to)

trim(s) ==
    LET keepIdx == {i \in 1..Len(s) : s[i] \notin WhiteSpace}
    IN  IF keepIdx = {} THEN <<>>
        ELSE Slice(s, CHOOSE i \in keepIdx : \A j \in keepIdx : i <= j,
                      CHOOSE i \in keepIdx : \A j \in keepIdx : i >= j)

startsWith(s, c) == Len(s) >= 1 /\ s[1] = c

endsWith(s, suffix) ==
    /\ Len(s) >= Len(suffix)
    /\ Slice(s, Len(s) - Len(suffix) + 1, Len(s)) = suffix

\* length of the longest run of digits (digits = TRUE) or of non-digits
\* (digits = FALSE) that starts at position from
RunLen(s, from, digits) ==
    LET stop == {j \in from..Len(s) : IsDigit(s[j]) # digits}
    IN  IF stop = {} THEN Len(s) - from + 1
        ELSE (CHOOSE j \in stop : \A k \in stop : j <= k) - from

WholeLine(s) == s

\* line.split(' ')[0]
FirstToken(s) ==
    LET sp == {j \in 1..Len(s) : s[j] = " "}
    IN  IF sp = {} THEN s
        ELSE Slice(s, 1, (CHOOSE j \in sp : \A k \in sp : j <= k) - 1)

----------------------------------------------------------------------------
(* Objects *)

Has(o, key) == \E i \in 1..Len(o) : o[i].k = key

Get(o, key) == o[CHOOSE i \in 1..Len(o) : o[i].k = key].v

\* o[key] = val: an existing key keeps its place, a new key goes last
Put(o, key, val) ==
    IF Has(o, key)
    THEN [i \in 1..Len(o) |-> IF o[i].k = key THEN [k |-> key, v |-> val] ELSE o[i]]
    ELSE Append(o, [k |-> key, v |-> val])

\* the property key an undefined value is converted to
Undefined == <<"u","n","d","e","f","i","n","e","d">>

----------------------------------------------------------------------------
(* Scoring table and result-file parser *)

SCORES ==
    << [k |-> <<"1">>, v |-> 10], [k |-> <<"2">>, v |-> 9],
       [k |-> <<"3">>, v |-> 8],  [k |-> <<"4">>, v |-> 7],
       [k |-> <<"5">>, v |-> 6],  [k |-> <<"6">>, v |-> 5],
       [k |-> <<"7">>, v |-> 4],  [k |-> <<"8">>, v |-> 3],
       [k |-> <<"9">>, v |-> 2],  [k |-> <<"1","0">>, v |-> 1] >>

\* SCORES[pieces[1]] || 0
ScoreOf(position) == IF Has(SCORES, position) THEN Get(SCORES, position) ELSE 0

\* line.match(/^\d+/)
StartsWithDigit(line) == Len(line) >= 1 /\ IsDigit(line[1])

\* line.match(/(^\d+)[^0-9]+\d{3}([^0-9]+)/): every quantifier is greedy and
\* each run is delimited by the character class of the next one, so the runs
\* are the maximal ones.  pieces[1] is position, pieces[2] is name.
RowMatch(line) ==
    LET d1 == RunLen(line, 1, TRUE)
        s1 == RunLen(line, d1 + 1, FALSE)
        p  == d1 + s1 + 1
        ok == /\ d1 >= 1
              /\ s1 >= 1
              /\ p + 3 <= Len(line)
              /\ \A j \in p..(p + 2) : IsDigit(line[j])
              /\ ~IsDigit(line[p + 3])
    IN  IF ok
        THEN [matched |-> TRUE, position |-> Slice(line, 1, d1),
              name |-> Slice(line, p + 3, p + 2 + RunLen(line, p + 3, FALSE))]
        ELSE [matched |-> FALSE, position |-> <<>>, name |-> <<>>]

\* line.match(/\d\d\.\d{3}/)
HasTimeToken(line) ==
    \E i \in 1..Len(line) :
        /\ i + 5 <= Len(line)
        /\ IsDigit(line[i]) /\ IsDigit(line[i + 1])
        /\ line[i + 2] = "."
        /\ \A j \in (i + 3)..(i + 5) : IsDigit(line[j])

\* rawData.trim().length < 1 (a line break is white space)
IsBlank(content) == \A i \in 1..Len(content) : trim(content[i]) = <<>>

TimeRuleNever(s) == FALSE

\* whether the parser of season s has the time-token rule (index.js 41-42)
TimeRule(s) == s = 2

\* a flush that adds the section's drivers to the ones the class already has
FlushMerging(toReturn, drivingClass, data) ==
    IF Has(toReturn, drivingClass)
    THEN LET old == Get(toReturn, drivingClass)
         IN  Put(toReturn, drivingClass,
                 [i \in 1..Len(old) |->
                     IF Has(data, old[i].k)
                     THEN [k |-> old[i].k, v |-> Get(data, old[i].k)]
                     ELSE old[i]]
                 \o SelectSeq(data, LAMBDA e : ~Has(old, e.k)))
    ELSE Put(toReturn, drivingClass, data)

\* toReturn[drivingClass] = data
Flush(toReturn, drivingClass, data) == Put(toReturn, drivingClass, data)

\* a loop body that passes over a malformed row instead of throwing
ParseLineSkipsMalformed(s, st, rawLine) ==
    LET line == trim(rawLine)
        pieces == RowMatch(line)
    IN  IF Len(line) = 0 \/ startsWith(line, "[") \/ startsWith(line, "+")
        THEN st
        ELSE IF StartsWithDigit(line)
        THEN IF ~pieces.matched
             THEN st
             ELSE IF TimeRule(s) /\ ~HasTimeToken(line)
             THEN st
             ELSE [st EXCEPT !.data = Put(st.data, trim(pieces.name),
                                          ScoreOf(pieces.position))]
        ELSE [toReturn |-> IF st.hasClass
                           THEN Flush(st.toReturn, st.drivingClass, st.data)
                           ELSE st.toReturn,
              data |-> <<>>,
              hasClass |-> TRUE,
              drivingClass |-> FirstToken(line),
              thrown |-> FALSE]

\* What the body of the for loop does with one line, from the state st of
\* the loop: [toReturn, data, hasClass, drivingClass, thrown].
ParseLine(s, st, rawLine) ==
    LET line == trim(rawLine)
        pieces == RowMatch(line)
    IN  IF Len(line) = 0 \/ startsWith(line, "[") \/ startsWith(line, "+")
        THEN st
        ELSE IF StartsWithDigit(line)
        THEN IF ~pieces.matched
             THEN [st EXCEPT !.thrown = TRUE]
             ELSE IF TimeRule(s) /\ ~HasTimeToken(line)
             THEN st
             ELSE [st EXCEPT !.data = Put(st.data, trim(pieces.name),
                                          ScoreOf(pieces.position))]
        ELSE [toReturn |-> IF st.hasClass
                           THEN Flush(st.toReturn, st.drivingClass, st.data)
                           ELSE st.toReturn,
              data |-> <<>>,
              hasClass |-> TRUE,
              drivingClass |-> FirstToken(line),
              thrown |-> FALSE]

RECURSIVE ParseLines(_, _, _, _)
ParseLines(s, lines, i, st) ==
    IF st.thrown \/ i > Len(lines) THEN st
    ELSE ParseLines(s, lines, i + 1, ParseLine(s, st, lines[i]))

\* parseFile of season s on a file whose text splits into the lines content.
\* status: "none" (returns undefined), "value" (returns toReturn), "throw".
parseFile(s, content) ==
    LET st0 == [toReturn |-> <<>>, data |-> <<>>, hasClass |-> FALSE,
                drivingClass |-> Undefined, thrown |-> FALSE]
        st == ParseLines(s, content, 1, st0)
    IN  IF IsBlank(content) THEN [status |-> "none", value |-> <<>>]
        ELSE IF st.thrown THEN [status |-> "throw", value |-> <<>>]
        ELSE [status |-> "value",
              value |-> Flush(st.toReturn, st.drivingClass, st.data)]

----------------------------------------------------------------------------
(* Event directory reader *)

\* a reader that keys a file of unmatched name by its whole name
MatchEventOrName(filename) ==
    LET hits == {i \in 1..Len(filename) :
                    /\ i + 6 <= Len(filename)
                    /\ Slice(filename, i, i + 5) = <<"e","v","e","n","t"," ">>
                    /\ IsDigit(filename[i + 6])}
        first == CHOOSE i \in hits : \A j \in hits : i <= j
    IN  IF hits = {} THEN [matched |-> TRUE, text |-> filename]
        ELSE [matched |-> TRUE,
              text |-> Slice(filename, first,
                             first + 5 + RunLen(filename, first + 6, TRUE))]

\* filename.match(/event \d+/): eventName[0], or no match
MatchEvent(filename) ==
    LET hits == {i \in 1..Len(filename) :
                    /\ i + 6 <= Len(filename)
                    /\ Slice(filename, i, i + 5) = <<"e","v","e","n","t"," ">>
                    /\ IsDigit(filename[i + 6])}
        first == CHOOSE i \in hits : \A j \in hits : i <= j
    IN  IF hits = {} THEN [matched |-> FALSE, text |-> <<>>]
        ELSE [matched |-> TRUE,
              text |-> Slice(filename, first,
                             first + 5 + RunLen(filename, first + 6, TRUE))]

\* the name readData works with: index.js 64 lower-cases it, part_000 61 not
FileName(s, rawName) == IF s = 2 THEN toLowerCase(rawName) ELSE rawName

\* index.js 65-66; part_000 has no such test
SkipsCsv(s, filename) == s = 2 /\ endsWith(filename, <<"c","s","v">>)

\* the entries of d that the path dataDir/filename names on the file system
Resolve(cs, d, filename) ==
    {j \in 1..Len(d) :
        IF cs THEN d[j].name = filename
        ELSE toLowerCase(d[j].name) = toLowerCase(filename)}

\* One iteration of readData's loop, on entry i of d with toReturn = acc:
\* what it leaves in toReturn, what parseFile returned if it was called
\* (called), and whether the iteration threw (thrown: "", "ENOENT",
\* "parse", "TypeError").
ReadEntry(s, cs, d, i, acc) ==
    LET filename == FileName(s, d[i].name)
        found == Resolve(cs, d, filename)
        entry == d[CHOOSE j \in found : TRUE]
        contents == parseFile(s, entry.content)
        eventName == MatchEvent(filename)
        quiet == [toReturn |-> acc, called |-> FALSE,
                  file |-> IF found = {} THEN 0 ELSE CHOOSE j \in found : TRUE,
                  contents |-> [status |-> "none", value |-> <<>>], thrown |-> ""]
    IN  IF SkipsCsv(s, filename) THEN quiet
        ELSE IF found = {} THEN [quiet EXCEPT !.thrown = "ENOENT"]
        ELSE IF ~entry.isFile THEN quiet
        ELSE IF contents.status = "throw"
        THEN [quiet EXCEPT !.called = TRUE, !.contents = contents, !.thrown = "parse"]
        ELSE IF contents.status = "none"
        THEN [quiet EXCEPT !.called = TRUE, !.contents = contents]
        ELSE IF ~eventName.matched
        THEN [quiet EXCEPT !.called = TRUE, !.contents = contents,
                           !.thrown = "TypeError"]
        ELSE [quiet EXCEPT !.called = TRUE, !.contents = contents,
                           !.toReturn = Put(acc, eventName.text, contents.value)]

----------------------------------------------------------------------------
(* Season combiner *)

\* a loop that takes a 0 for "no points" and appends nothing for it
RECURSIVE CombineDriversSkipZero(_, _, _)
CombineDriversSkipZero(acc, drivers, j) ==
    IF j > Len(drivers) THEN acc
    ELSE LET driver == drivers[j].k
             pts == drivers[j].v
         IN  CombineDriversSkipZero(
                 IF pts = 0 THEN acc
                 ELSE IF ~Has(acc, driver) THEN Put(acc, driver, <<pts>>)
                 ELSE Put(acc, driver, Append(Get(acc, driver), pts)),
                 drivers, j + 1)

\* The loop over the drivers of one class of one event; acc is
\* toReturn[driverClass].  A stored value is an array, which is truthy even
\* when it holds a 0, so !toReturn[driverClass][driver] is "has no entry".
RECURSIVE CombineDrivers(_, _, _)
CombineDrivers(acc, drivers, j) ==
    IF j > Len(drivers) THEN acc
    ELSE LET driver == drivers[j].k
             pts == drivers[j].v
         IN  CombineDrivers(
                 IF ~Has(acc, driver) THEN Put(acc, driver, <<pts>>)
                 ELSE Put(acc, driver, Append(Get(acc, driver), pts)),
                 drivers, j + 1)

RECURSIVE CombineClasses(_, _, _)
CombineClasses(acc, eventData, j) ==
    IF j > Len(eventData) THEN acc
    ELSE LET driverClass == eventData[j].k
             acc1 == IF ~Has(acc, driverClass) THEN Put(acc, driverClass, <<>>)
                     ELSE acc
         IN  CombineClasses(
                 Put(acc1, driverClass,
                     CombineDrivers(Get(acc1, driverClass), eventData[j].v, 1)),
                 eventData, j + 1)

RECURSIVE CombineEvents(_, _, _)
CombineEvents(acc, results, j) ==
    IF j > Len(results) THEN acc
    ELSE CombineEvents(CombineClasses(acc, results[j].v, 1), results, j + 1)

combineResults(results) == CombineEvents(<<>>, results, 1)

----------------------------------------------------------------------------
(* Score trimmer *)

\* a descending sort that is not stable: equal keys come out reversed
SortDescTiesReversed(items) ==
    LET n == Len(items)
        rank(i) == 1 + Cardinality({j \in 1..n :
                        \/ items[j].key > items[i].key
                        \/ items[j].key = items[i].key /\ j > i})
    IN  [r \in 1..n |-> items[CHOOSE i \in 1..n : rank(i) = r]]

\* Array.prototype.sort with the comparator (a, b) => key(b) - key(a): a
\* stable sort, so an element goes after the elements of greater key and
\* after the earlier elements of equal key.  items are [key, val] records.
SortDesc(items) ==
    LET n == Len(items)
        rank(i) == 1 + Cardinality({j \in 1..n :
                        \/ items[j].key > items[i].key
                        \/ items[j].key = items[i].key /\ j < i})
    IN  [r \in 1..n |-> items[CHOOSE i \in 1..n : rank(i) = r]]

\* the elements of s at the positions in K, in order
Pick(s, K) ==
    LET pos(r) == CHOOSE i \in K : Cardinality({j \in K : j < i}) = r - 1
    IN  [r \in 1..Cardinality(K) |-> s[pos(r)]]

\* a trimmer that filters without sorting first
TrimScoresUnsorted(scores, n) ==
    Pick(scores, {i \in 1..Len(scores) : scores[i] # 0 /\ i - 1 < n})

\* index.js 118-119: sort((a, b) => b - a), then
\* filter((a, i) => !!a && i < keep) with i counted from 0
TrimScores(scores, n) ==
    LET items == SortDesc([j \in 1..Len(scores) |->
                              [key |-> scores[j], val |-> scores[j]]])
        sorted == [i \in 1..Len(items) |-> items[i].val]
    IN  Pick(sorted, {i \in 1..Len(sorted) : sorted[i] # 0 /\ i - 1 < n})

\* dropLowest of season s: index.js trims every sequence, part_000 returns
\* results as it got them
dropLowest(s, results, n) ==
    IF s = 2
    THEN [c \in 1..Len(results) |->
            [k |-> results[c].k,
             v |-> [d \in 1..Len(results[c].v) |->
                      [k |-> results[c].v[d].k,
                       v |-> TrimScores(results[c].v[d].v, n)]]]]
    ELSE results

----------------------------------------------------------------------------
(* Ranking mapper *)

\* reduce((a, b) => a + b, 0)
RECURSIVE Sum(_)
Sum(s) == IF s = <<>> THEN 0 ELSE s[1] + Sum(Tail(s))

\* the record pushed for one driver (index.js 131-135)
DriverRecord(entry) ==
    [name |-> entry.k, scores |-> entry.v, total |-> Sum(entry.v)]

\* toReturn[i] for one class: the records in driver order, then
\* sort((a, b) => b.total - a.total)
RankClass(peopleByClass) ==
    LET records == [d \in 1..Len(peopleByClass) |-> DriverRecord(peopleByClass[d])]
        sorted == SortDesc([d \in 1..Len(records) |->
                              [key |-> records[d].total, val |-> records[d]]])
    IN  [r \in 1..Len(sorted) |-> sorted[r].val]

mapResults(results) ==
    [c \in 1..Len(results) |-> [k |-> results[c].k, v |-> RankClass(results[c].v)]]

----------------------------------------------------------------------------
(* CSV exporter *)

DigitOf == <<"0", "1", "2", "3", "4", "5", "6", "7", "8", "9">>

\* the decimal text of a number n >= 0
RECURSIVE NumberToString(_)
NumberToString(n) ==
    IF n < 10 THEN <<DigitOf[n + 1]>>
    ELSE NumberToString(n \div 10) \o <<DigitOf[(n % 10) + 1]>>

\* Array.prototype.join
RECURSIVE Join(_, _)
Join(parts, sep) ==
    IF parts = <<>> THEN <<>>
    ELSE IF Len(parts) = 1 THEN parts[1]
    ELSE parts[1] \o sep \o Join(Tail(parts), sep)

\* ['', record.name, record.total, ...record.scores].join(',')
RecordLine(record) ==
    Join(<< <<>>, record.name, NumberToString(record.total) >>
         \o [i \in 1..Len(record.scores) |-> NumberToString(record.scores[i])],
         <<",">>)

\* the lines pushed for the classes from position c on
RECURSIVE CsvLines(_, _)
CsvLines(results, c) ==
    IF c > Len(results) THEN <<>>
    ELSE << results[c].k >>
         \o [r \in 1..Len(results[c].v) |-> RecordLine(results[c].v[r])]
         \o CsvLines(results, c + 1)

NoOutput == [written |-> FALSE, text |-> <<>>]

\* exportToCsv of season s: index.js writes output.csv, part_000's body is
\* empty
exportToCsv(s, results, out) ==
    IF s = 2
    THEN [written |-> TRUE, text |-> Join(CsvLines(results, 1), <<"\n">>)]
    ELSE out

----------------------------------------------------------------------------
(* Strings of the inputs *)

Event1 == <<"e","v","e","n","t"," ","1">>
Event1Upper == <<"E","v","e","n","t"," ","1">>
Event22 == <<"e","v","e","n","t"," ","2","2">>
Notes == <<"n","o","t","e","s">>
RunCsv == <<"R","U","N",".","C","S","V">>
Archive == <<"a","r","c","h","i","v","e">>
GT3 == <<"G","T","3">>
GT4 == <<"G","T","4">>
GT3Class == <<"G","T","3"," ","C","l","a","s","s">>
GT4Class == <<"G","T","4"," ","C","l","a","s","s">>
Al == <<"A","l">>
Bo == <<"B","o">>
Cy == <<"C","y">>
Di == <<"D","i">>
AliceDriver == <<"A","l","i","c","e"," ","D","r","i","v","e","r">>
BobRacer == <<"B","o","b"," ","R","a","c","e","r">>
CarolSpeed == <<"C","a","r","o","l"," ","S","p","e","e","d">>

\* a class header, first token GT3
LineGT3Class == <<"G","T","3"," ","C","l","a","s","s">>
\* another header whose first token is GT3
LineGT3Open == <<"G","T","3"," ","O","p","e","n">>
\* a class header of one token
LineGT4 == <<"G","T","4">>
\* position 1, with a time token
LineRow1 == <<"1"," ","0","4","5"," ","A","l"," ","4","5",".","1","2","3">>
\* position 2, no time token, leading blank
LineRow2NoTime == <<" ","2"," ","1","1","8"," ","B","o">>
\* position written 01
LineRow01 == <<"0","1"," ","0","4","5"," ","C","y"," ","4","5",".","5","0","0">>
\* position 10
LineRow10 == <<"1","0"," ","2","0","0"," ","B","o"," ","4","7",".","0","0","0">>
\* position 11, trailing tab
LineRow11 == <<"1","1"," ","0","4","5"," ","C","y"," ","5","0",".","0","0","0","\t">>
\* the malformed line of the spec
LineSeven == <<"7">>
\* four digits where three are expected
LineFourDigits == <<"3"," ","1","2","3","4"," ","A","l"," ","4","5",".","1","2","3">>
\* a bracket line
LineComment == <<"[","c","]">>
\* a continuation line
LinePlus == <<"+","x">>
\* an empty line
LineEmpty == <<>>
\* a white-space line
LineBlank == <<" ","\t">>
\* Scenario A
LineA1 == <<"1"," "," "," ","0","4","5"," "," "," ","A","l","i","c","e"," ","D","r","i","v","e","r">>
\* Scenario A
LineA2 == <<"2"," "," "," ","1","1","8"," "," "," ","B","o","b"," ","R","a","c","e","r">>
\* Scenario A
LineA3 == <<"[","c","o","m","m","e","n","t","]">>
\* Scenario A
LineA4 == <<"1"," "," "," ","2","0","0"," "," "," ","C","a","r","o","l"," ","S","p","e","e","d">>

----------------------------------------------------------------------------
(* main: one action per step of the run *)

\* dropLowest's default second argument: keep = 4 in index.js, dropCount = 2
\* in part_000
KeepDefault == 4
DropCountDefault == 2

NoContents == [status |-> "none", value |-> <<>>]

\* One iteration of readData's for loop, parseFile included; a throw rejects
\* readData and with it main.
ReadDataLoop ==
    /\ pc = "readData"
    /\ idx <= Len(dir)
    /\ \E r \in {ReadEntry(season, caseSensitiveFS, dir, idx, allData)} :
           /\ allData' = r.toReturn
           /\ parsed' = IF r.called THEN r.contents ELSE parsed
           /\ calls' = Append(calls,
                  [entry |-> idx, file |-> r.file, called |-> r.called,
                   status |-> r.contents.status, thrown |-> r.thrown,
                   before |-> allData, after |-> r.toReturn])
           /\ pc' = IF r.thrown # "" THEN "rejected" ELSE "readData"
           /\ idx' = IF r.thrown # "" THEN idx ELSE idx + 1
    /\ UNCHANGED <<season, caseSensitiveFS, dir, keep, classResults, output,
                   exitCode, arg>>

\* the loop is over: readData returns toReturn to main
ReadDataReturn ==
    /\ pc = "readData"
    /\ idx > Len(dir)
    /\ pc' = "combineResults"
    /\ UNCHANGED <<season, caseSensitiveFS, dir, keep, idx, parsed, allData,
                   classResults, output, exitCode, calls, arg>>

Combine ==
    /\ pc = "combineResults"
    /\ classResults' = combineResults(allData)
    /\ arg' = allData
    /\ pc' = "dropLowest"
    /\ UNCHANGED <<season, caseSensitiveFS, dir, keep, idx, parsed, allData,
                   output, exitCode, calls>>

\* part_000's main has no mapResults call
DropLowest ==
    /\ pc = "dropLowest"
    /\ classResults' = dropLowest(season, classResults, keep)
    /\ arg' = classResults
    /\ pc' = IF season = 2 THEN "mapResults" ELSE "exportToCsv"
    /\ UNCHANGED <<season, caseSensitiveFS, dir, keep, idx, parsed, allData,
                   output, exitCode, calls>>

MapResults ==
    /\ pc = "mapResults"
    /\ classResults' = mapResults(classResults)
    /\ arg' = classResults
    /\ pc' = "exportToCsv"
    /\ UNCHANGED <<season, caseSensitiveFS, dir, keep, idx, parsed, allData,
                   output, exitCode, calls>>

ExportToCsv ==
    /\ pc = "exportToCsv"
    /\ output' = exportToCsv(season, classResults, output)
    /\ arg' = classResults
    /\ pc' = "resolved"
    /\ UNCHANGED <<season, caseSensitiveFS, dir, keep, idx, parsed, allData,
                   classResults, exitCode, calls>>

\* main().then(() => process.exit(0), err => process.exit(1))
ExitSuccess ==
    /\ pc = "resolved"
    /\ exitCode' = 0
    /\ pc' = "exited"
    /\ UNCHANGED <<season, caseSensitiveFS, dir, keep, idx, parsed, allData,
                   classResults, output, calls, arg>>

ExitFailure ==
    /\ pc = "rejected"
    /\ exitCode' = 1
    /\ pc' = "exited"
    /\ UNCHANGED <<season, caseSensitiveFS, dir, keep, idx, parsed, allData,
                   classResults, output, calls, arg>>

Next ==
    \/ ReadDataLoop
    \/ ReadDataReturn
    \/ Combine
    \/ DropLowest
    \/ MapResults
    \/ ExportToCsv
    \/ ExitSuccess
    \/ ExitFailure

----------------------------------------------------------------------------
(* Inputs *)

ContentEmpty == <<LineEmpty>>
ContentBlank == <<LineBlank, LineEmpty>>
ContentGood == <<LineGT3Class, LineRow1, LineRow10>>
ContentBad == <<LineGT4, LineRow1, LineSeven>>

FileNames == {Event1, Event1Upper, Event22, Notes, RunCsv}
FileContents == {ContentEmpty, ContentBlank, ContentGood, ContentBad}

EntryPool ==
    {[name |-> n, isFile |-> TRUE, content |-> c] : n \in FileNames, c \in FileContents}
    \cup {[name |-> Archive, isFile |-> FALSE, content |-> <<>>]}

\* the listings a directory can have: names differ, and on a file system that
\* ignores letter case they differ in more than case
Directories(cs) ==
    {d \in UNION {[1..n -> EntryPool] : n \in 0..MaxFiles} :
        \A i, j \in 1..Len(d) :
            i # j => /\ d[i].name # d[j].name
                     /\ cs \/ toLowerCase(d[i].name) # toLowerCase(d[j].name)}

\* the state main starts in, for season s
Start(s) ==
    /\ season = s
    /\ keep = IF s = 2 THEN KeepDefault ELSE DropCountDefault
    /\ idx = 1
    /\ parsed = NoContents
    /\ output = NoOutput
    /\ exitCode = -1
    /\ calls = <<>>
    /\ arg = <<>>

Init ==
    /\ \E s \in {1, 2} : Start(s)
    /\ caseSensitiveFS \in BOOLEAN
    /\ dir \in Directories(caseSensitiveFS)
    /\ pc = "readData"
    /\ allData = <<>>
    /\ classResults = <<>>

Spec == Init /\ [][Next]_vars

----------------------------------------------------------------------------
(* The parser on one file: the run of main on a directory that holds the   *)
(* single file "event 1"                                                    *)

LinePool ==
    {LineGT3Class, LineGT3Open, LineGT4, LineRow1, LineRow2NoTime, LineRow01, LineRow10,
     LineRow11, LineSeven, LineFourDigits, LineComment, LinePlus, LineBlank}

ScenarioA == <<LineGT3Class, LineA1, LineA2, LineA3, GT4Class, LineA4>>

ParseContents ==
    UNION {[1..n -> LinePool] : n \in 1..MaxLines} \cup {ScenarioA, ContentEmpty}

InitParse ==
    /\ \E s \in {1, 2} : Start(s)
    /\ caseSensitiveFS = TRUE
    /\ \E c \in ParseContents :
           dir = << [name |-> Event1, isFile |-> TRUE, content |-> c] >>
    /\ pc = "readData"
    /\ allData = <<>>
    /\ classResults = <<>>

SpecParse == InitParse /\ [][Next]_vars

----------------------------------------------------------------------------
(* The stages of main on their own: each specification starts main at the  *)
(* call of one stage, with the stage's argument drawn from a set of inputs  *)

EventKey(i) == <<"e","v","e","n","t"," ">> \o NumberToString(i)

\* parse results: two drivers, the same two in the other order with a 0, two
\* classes, a class without rows, rows before any header, one driver
EventPool ==
    { << [k |-> GT3, v |-> << [k |-> Al, v |-> 10], [k |-> Bo, v |-> 9] >>] >>,
      << [k |-> GT3, v |-> << [k |-> Bo, v |-> 0], [k |-> Al, v |-> 7] >>] >>,
      << [k |-> GT3, v |-> << [k |-> Al, v |-> 0] >>],
         [k |-> GT4, v |-> << [k |-> Cy, v |-> 10] >>] >>,
      << [k |-> GT4, v |-> << [k |-> Al, v |-> 5] >>], [k |-> GT3, v |-> <<>>] >>,
      << [k |-> Undefined, v |-> << [k |-> Cy, v |-> 0] >>] >>,
      << [k |-> GT3, v |-> << [k |-> Bo, v |-> 9] >>] >> }

CombineInputs ==
    {[i \in 1..Len(es) |-> [k |-> EventKey(i), v |-> es[i]]] :
        es \in UNION {[1..n -> EventPool] : n \in 0..MaxEvents}}

\* the state of main between two stages, readData behind it
Midway ==
    /\ caseSensitiveFS = TRUE
    /\ dir = <<>>
    /\ idx = 1
    /\ parsed = NoContents
    /\ output = NoOutput
    /\ exitCode = -1
    /\ calls = <<>>
    /\ arg = <<>>

InitCombine ==
    /\ Midway
    /\ season \in {1, 2}
    /\ keep = IF season = 2 THEN KeepDefault ELSE DropCountDefault
    /\ pc = "combineResults"
    /\ allData \in CombineInputs
    /\ classResults = <<>>

SpecCombine == InitCombine /\ [][Combine]_vars

PointPool == {0, 1, 5, 10}

ScoreSeqs == UNION {[1..n -> PointPool] : n \in 0..MaxLen}

\* an aggregate of two classes and three drivers, one of them with scores s
TrimInput(s) ==
    << [k |-> GT3, v |-> << [k |-> Al, v |-> s],
                            [k |-> Bo, v |-> <<0, 10, 0, 5, 5, 10>>] >>],
       [k |-> GT4, v |-> << [k |-> Cy, v |-> <<>>] >>] >>

InitTrim ==
    /\ Midway
    /\ season = 2
    /\ keep \in 1..MaxKeep
    /\ pc = "dropLowest"
    /\ allData = <<>>
    /\ \E s \in ScoreSeqs : classResults = TrimInput(s)

SpecTrim == InitTrim /\ [][DropLowest]_vars

DriverPool == {Al, Bo, Cy, Di}

\* trimmed sequences; <<10>> and <<5, 5>> have the same total
TrimmedPool == {<<>>, <<10>>, <<5, 5>>, <<10, 7>>}

\* the driver maps of at most MaxDrivers drivers
DriverMaps ==
    {m \in UNION {[1..n -> [k : DriverPool, v : TrimmedPool]] : n \in 0..MaxDrivers} :
        \A i, j \in 1..Len(m) : i # j => m[i].k # m[j].k}

RankInput(m) ==
    << [k |-> GT3, v |-> m],
       [k |-> GT4, v |-> << [k |-> Cy, v |-> <<5>>], [k |-> Di, v |-> <<10, 1>>] >>] >>

InitRank ==
    /\ Midway
    /\ season = 2
    /\ keep = KeepDefault
    /\ pc = "mapResults"
    /\ allData = <<>>
    /\ \E m \in DriverMaps : classResults = RankInput(m)

SpecRank == InitRank /\ [][MapResults]_vars


----------------------------------------------------------------------------
(* Properties of the parser (checked under SpecParse) *)

\* an object as a mapping: its keys to its values, the order forgotten
ObjFn(o) == [key \in {o[i].k : i \in 1..Len(o)} |-> Get(o, key)]

\* a parse result as a mapping from class to a mapping from driver to points
EventFn(o) == [key \in {o[i].k : i \in 1..Len(o)} |-> ObjFn(Get(o, key))]

\* the lines of the file that the only parseFile call of the run has read
ParsedContent == dir[1].content

\* parseFile has been called on the file and has returned or thrown
ParseDone == Len(calls) = 1 /\ calls[1].called

\* <position digits><non-digit separator><exactly 3 digits><non-digit
\* separator><driver name>, read off the text of the line
MatchesRowPattern(line) ==
    \E a \in 1..Len(line), b \in 1..Len(line) :
        /\ a + b + 4 <= Len(line)
        /\ \A j \in 1..a : IsDigit(line[j])
        /\ \A j \in (a + 1)..(a + b) : ~IsDigit(line[j])
        /\ \A j \in (a + b + 1)..(a + b + 3) : IsDigit(line[j])
        /\ ~IsDigit(line[a + b + 4])

DigitLeading(raw) == Len(trim(raw)) >= 1 /\ IsDigit(trim(raw)[1])

MalformedLine(raw) == DigitLeading(raw) /\ ~MatchesRowPattern(trim(raw))

HasMalformedLine(content) ==
    \E l \in 1..Len(content) : MalformedLine(content[l])

\* C1: in both parsers, a file with a digit-leading line that does not match
\* the result-row pattern makes parseFile throw: no parse result, nothing
\* stored, no later stage runs, no CSV is written, and the process exits
\* with a failure code.
C1_MalformedLineIsFatal ==
    \A n \in 1..Len(calls) :
        (calls[n].called /\ HasMalformedLine(dir[calls[n].file].content))
        => /\ calls[n].status = "throw"
           /\ calls[n].after = calls[n].before
           /\ pc \in {"rejected", "exited"}
           /\ exitCode # 0
           /\ pc = "exited" => exitCode = 1
           /\ classResults = <<>>
           /\ arg = <<>>
           /\ ~output.written

\* the run has ended in failure on the file whose only bad line is "7"
C1_Witness ==
    /\ ParseDone
    /\ \E l \in 1..Len(ParsedContent) : ParsedContent[l] = LineSeven
    /\ pc = "exited"
    /\ exitCode = 1

\* a result row without a time token
UntimedRow(raw) ==
    /\ DigitLeading(raw)
    /\ MatchesRowPattern(trim(raw))
    /\ ~HasTimeToken(trim(raw))

\* a digit-leading line without a time token, row or not
UntimedDigitLine(raw) == DigitLeading(raw) /\ ~HasTimeToken(trim(raw))

\* every driver of the parse result is named by a row that has a time token
DriversComeFromTimedRows ==
    \A c \in 1..Len(parsed.value) :
        \A d \in 1..Len(parsed.value[c].v) :
            \E l \in 1..Len(ParsedContent) :
                /\ DigitLeading(ParsedContent[l])
                /\ HasTimeToken(trim(ParsedContent[l]))
                /\ RowMatch(trim(ParsedContent[l])).matched
                /\ trim(RowMatch(trim(ParsedContent[l])).name) = parsed.value[c].v[d].k

\* C2 as claimed: in the season-2 parser every digit-leading line without a
\* time token is skipped, so it never is the line that raises the error and
\* it adds no driver.
C2_EveryUntimedDigitLineSkipped ==
    (season = 2 /\ ParseDone)
    => /\ parsed.status = "throw"
          => \E l \in 1..Len(ParsedContent) :
                 /\ MalformedLine(ParsedContent[l])
                 /\ ~UntimedDigitLine(ParsedContent[l])
       /\ parsed.status = "value" => DriversComeFromTimedRows

\* the file with every untimed result row replaced by a bracket line
WithoutUntimedRows ==
    [l \in 1..Len(ParsedContent) |->
        IF UntimedRow(ParsedContent[l]) THEN LineComment ELSE ParsedContent[l]]

\* C2 amended: in the season-2 parser every digit-leading line that matches
\* the result-row pattern and has no time token is skipped: an error comes
\* only from a line that fails the pattern, no driver comes from such a row,
\* and the result is the one of the file without these rows.
C2_UntimedRowSkipped ==
    (season = 2 /\ ParseDone)
    => /\ parsed.status = "throw" => HasMalformedLine(ParsedContent)
       /\ parsed.status = "value" => DriversComeFromTimedRows
       /\ parsed = parseFile(2, WithoutUntimedRows)

\* a file with an untimed row under a header has been parsed, with a result
C2_Witness ==
    /\ season = 2
    /\ ParseDone
    /\ ParsedContent = <<LineGT4, LineRow2NoTime, LineRow1>>
    /\ parsed.status = "value"
    /\ EventFn(parsed.value) = EventFn(<< [k |-> GT4, v |-> << [k |-> Al, v |-> 10] >>] >>)

\* C3 as claimed: Scenario A parses to classes keyed by the whole header
\* lines "GT3 Class" and "GT4 Class".
C3_ScenarioAKeyedByHeaderLine ==
    (season = 1 /\ ParseDone /\ ParsedContent = ScenarioA)
    => /\ parsed.status = "value"
       /\ EventFn(parsed.value) = EventFn(
            << [k |-> GT3Class, v |-> << [k |-> AliceDriver, v |-> 10],
                                         [k |-> BobRacer, v |-> 9] >>],
               [k |-> GT4Class, v |-> << [k |-> CarolSpeed, v |-> 10] >>] >>)

\* C3 amended: Scenario A parses to {"GT3": {"Alice Driver": 10, "Bob
\* Racer": 9}, "GT4": {"Carol Speed": 10}}: one entry per class header, keyed
\* by the header's first space-delimited token.
C3_ScenarioAKeyedByFirstToken ==
    (season = 1 /\ ParseDone /\ ParsedContent = ScenarioA)
    => /\ parsed.status = "value"
       /\ EventFn(parsed.value) = EventFn(
            << [k |-> GT3, v |-> << [k |-> AliceDriver, v |-> 10],
                                    [k |-> BobRacer, v |-> 9] >>],
               [k |-> GT4, v |-> << [k |-> CarolSpeed, v |-> 10] >>] >>)

C3_Witness ==
    /\ season = 1
    /\ ParseDone
    /\ ParsedContent = ScenarioA
    /\ parsed.status = "value"
    /\ pc = "exited"

\* the number written by a string of digits
RECURSIVE ToNumber(_)
ToNumber(digits) ==
    IF digits = <<>> THEN 0
    ELSE 10 * ToNumber(SubSeq(digits, 1, Len(digits) - 1))
         + (CHOOSE n \in 0..9 : DigitOf[n + 1] = digits[Len(digits)])

\* the result rows of the file that the parser of the season records
RecordedRows ==
    {l \in 1..Len(ParsedContent) :
        /\ DigitLeading(ParsedContent[l])
        /\ MatchesRowPattern(trim(ParsedContent[l]))
        /\ season = 2 => HasTimeToken(trim(ParsedContent[l]))}

RowPosition(l) == ToNumber(RowMatch(trim(ParsedContent[l])).position)
RowDriver(l) == trim(RowMatch(trim(ParsedContent[l])).name)

\* C4: every stored value is the points of a recorded row of that driver,
\* 11 minus the row's position for positions 1..10 and 0 from 11 on, so it
\* is an integer in 0..10.
C4_PointsFollowPosition ==
    (ParseDone /\ parsed.status = "value")
    => \A c \in 1..Len(parsed.value) :
         \A d \in 1..Len(parsed.value[c].v) :
            LET entry == parsed.value[c].v[d]
            IN  /\ entry.v \in 0..10
                /\ \E l \in RecordedRows :
                     /\ RowDriver(l) = entry.k
                     /\ RowPosition(l) \in 1..10 => entry.v = 11 - RowPosition(l)
                     /\ RowPosition(l) >= 11 => entry.v = 0

\* whether a line is a class header: not empty, no bracket or plus in
\* front, no leading digit
IsHeader(raw) ==
    /\ Len(trim(raw)) >= 1
    /\ trim(raw)[1] \notin {"[", "+"}
    /\ ~IsDigit(trim(raw)[1])

HeaderToken(raw) == FirstToken(trim(raw))

\* the section that the header at line l opens: the header and the lines up
\* to the next header or the end of the file
Section(l) ==
    LET later == {m \in (l + 1)..Len(ParsedContent) : IsHeader(ParsedContent[m])}
        last == IF later = {} THEN Len(ParsedContent)
                ELSE (CHOOSE m \in later : \A k \in later : m <= k) - 1
    IN  SubSeq(ParsedContent, l, last)

\* the header at line l is the last one of its first token
LastOfToken(l) ==
    /\ IsHeader(ParsedContent[l])
    /\ \A m \in (l + 1)..Len(ParsedContent) :
          IsHeader(ParsedContent[m])
          => HeaderToken(ParsedContent[m]) # HeaderToken(ParsedContent[l])

\* C10: when several headers of a file have the same first token, the
\* class's entry holds the rows of the last such section and nothing of the
\* earlier ones.
C10_LastSectionReplaces ==
    (ParseDone /\ parsed.status = "value")
    => \A l \in 1..Len(ParsedContent) :
          LastOfToken(l)
          => /\ Has(parsed.value, HeaderToken(ParsedContent[l]))
             /\ ObjFn(Get(parsed.value, HeaderToken(ParsedContent[l])))
                = ObjFn(Get(parseFile(season, Section(l)).value,
                            HeaderToken(ParsedContent[l])))

\* two sections of class GT3, the first with a driver the second lacks, and
\* the result has no such driver
C10_Witness ==
    /\ ParseDone
    /\ ParsedContent = <<LineGT3Class, LineRow1, LineGT3Open>>
    /\ parsed.status = "value"
    /\ EventFn(parsed.value) = EventFn(<< [k |-> GT3, v |-> <<>>] >>)

----------------------------------------------------------------------------
(* Properties of the directory reader (checked under Spec) *)

\* the text holds a substring matching event <digits>, letter case observed
HasEventToken(name) ==
    \E i \in 1..Len(name) :
        /\ i + 6 <= Len(name)
        /\ SubSeq(name, i, i + 5) = <<"e","v","e","n","t"," ">>
        /\ IsDigit(name[i + 6])

\* the iteration on a regular file whose parse gave a result has failed the
\* run and has stored nothing
FailedFatally(n) ==
    /\ calls[n].thrown # ""
    /\ calls[n].after = calls[n].before
    /\ n = Len(calls)
    /\ pc \in {"rejected", "exited"}
    /\ exitCode # 0
    /\ pc = "exited" => exitCode = 1
    /\ classResults = <<>>
    /\ ~output.written

\* C8 as claimed: a parsed file whose name, as the directory lists it, has
\* no event <digits> substring makes the reader fail fatally.
C8_ListedNameWithoutEventIsFatal ==
    \A n \in 1..Len(calls) :
        (/\ calls[n].called
         /\ calls[n].status = "value"
         /\ ~HasEventToken(dir[calls[n].entry].name))
        => FailedFatally(n)

\* C8 amended: a parsed file whose name as readData matches it (the listed
\* name in season 1, the lower-cased listed name in season 2) has no
\* event <digits> substring makes the reader fail fatally: nothing is stored
\* for it and the run ends in failure.
C8_NameWithoutEventIsFatal ==
    \A n \in 1..Len(calls) :
        (/\ calls[n].called
         /\ calls[n].status = "value"
         /\ ~HasEventToken(IF season = 2
                           THEN toLowerCase(dir[calls[n].entry].name)
                           ELSE dir[calls[n].entry].name))
        => FailedFatally(n)

\* the file "notes" with result rows has ended the run in failure
C8_Witness ==
    /\ \E n \in 1..Len(calls) :
          /\ calls[n].called
          /\ calls[n].status = "value"
          /\ dir[calls[n].entry].name = Notes
          /\ calls[n].thrown = "TypeError"
    /\ pc = "exited"
    /\ exitCode = 1

\* C9: the iteration on a regular file of empty or white-space content never
\* throws and leaves readData's mapping as it was, whatever the file's name.
C9_BlankFileIsSkipped ==
    \A n \in 1..Len(calls) :
        (/\ dir[calls[n].entry].isFile
         /\ IsBlank(dir[calls[n].entry].content))
        => /\ calls[n].thrown = ""
           /\ calls[n].after = calls[n].before

----------------------------------------------------------------------------
(* Properties of the combiner, the trimmer and the ranking mapper *)

KeysDiffer(o) == \A i, j \in 1..Len(o) : i # j => o[i].k # o[j].k

\* event e of the input has an entry for driver d under class c
Scored(events, e, c, d) ==
    /\ Has(events[e].v, c)
    /\ Has(Get(events[e].v, c), d)

\* the points of d under c, one per event that has such an entry, in the
\* order of the events
PointsInOrder(events, c, d) ==
    LET K == {e \in 1..Len(events) : Scored(events, e, c, d)}
        nth(r) == CHOOSE e \in K : Cardinality({f \in K : f < e}) = r - 1
    IN  [r \in 1..Cardinality(K) |-> Get(Get(events[nth(r)].v, c), d)]

Count(s, x) == Cardinality({i \in 1..Len(s) : s[i] = x})

Min(a, b) == IF a < b THEN a ELSE b

\* kept is made of the values other than 0 among the n largest of orig
NonZeroOfLargest(kept, orig, n) ==
    \E I \in SUBSET (1..Len(orig)) :
        /\ Cardinality(I) = Min(n, Len(orig))
        /\ \A i \in I : \A j \in (1..Len(orig)) \ I : orig[i] >= orig[j]
        /\ \A x \in {orig[i] : i \in 1..Len(orig)} \cup {kept[i] : i \in 1..Len(kept)} :
              Count(kept, x) = IF x = 0 THEN 0
                               ELSE Cardinality({i \in I : orig[i] = x})

\* C6: after dropLowest(results, N) of season 2 every driver of every class
\* has at most N values, in descending order, none of them 0: the values
\* other than 0 among the N largest of the driver's sequence; an empty
\* sequence stays empty.
C6_TrimKeepsTopN ==
    (season = 2 /\ pc = "mapResults")
    => /\ Len(classResults) = Len(arg)
       /\ \A c \in 1..Len(arg) :
             /\ classResults[c].k = arg[c].k
             /\ Len(classResults[c].v) = Len(arg[c].v)
             /\ \A d \in 1..Len(arg[c].v) :
                   LET orig == arg[c].v[d].v
                       kept == classResults[c].v[d].v
                   IN  /\ classResults[c].v[d].k = arg[c].v[d].k
                       /\ Len(kept) <= keep
                       /\ \A i, j \in 1..Len(kept) : i < j => kept[i] >= kept[j]
                       /\ \A i \in 1..Len(kept) : kept[i] # 0
                       /\ NonZeroOfLargest(kept, orig, keep)
                       /\ orig = <<>> => kept = <<>>

\* five scores trimmed with the default N = 4: the lowest is dropped and so
\* is the 0 among the four largest
C6_Witness ==
    /\ season = 2
    /\ pc = "mapResults"
    /\ keep = KeepDefault
    /\ arg[1].v[1].v = <<1, 10, 0, 5, 0>>
    /\ classResults[1].v[1].v = <<10, 5, 1>>
    /\ arg[2].v[1].v = <<>>
    /\ classResults[2].v[1].v = <<>>

\* the sum of a sequence, taken from its end
RECURSIVE Total(_)
Total(s) == IF Len(s) = 0 THEN 0 ELSE Total(SubSeq(s, 1, Len(s) - 1)) + s[Len(s)]

\* the place of the driver named name in the driver map m
PlaceOf(m, name) == CHOOSE d \in 1..Len(m) : m[d].k = name

\* C7: mapResults gives every class one record per driver, with the driver's
\* scores and their sum as total (0 for no scores), ordered by total
\* descending, records of equal total in the order of the drivers in the
\* input.
C7_RankedByTotalStable ==
    pc = "exportToCsv"
    => /\ Len(classResults) = Len(arg)
       /\ \A c \in 1..Len(arg) :
             LET records == classResults[c].v
                 m == arg[c].v
             IN  /\ classResults[c].k = arg[c].k
                 /\ Len(records) = Len(m)
                 /\ \A d \in 1..Len(m) :
                       \E r \in 1..Len(records) : records[r].name = m[d].k
                 /\ \A r \in 1..Len(records) :
                       /\ Has(m, records[r].name)
                       /\ records[r].scores = Get(m, records[r].name)
                       /\ records[r].total = Total(records[r].scores)
                 /\ \A r, q \in 1..Len(records) :
                       r < q
                       => /\ records[r].total >= records[q].total
                          /\ records[r].total = records[q].total
                             => PlaceOf(m, records[r].name) < PlaceOf(m, records[q].name)

\* Bo and Al tie at 10 and stay in input order, behind Cy who came last
C7_Witness ==
    /\ pc = "exportToCsv"
    /\ arg[1].v = << [k |-> Bo, v |-> <<5, 5>>], [k |-> Al, v |-> <<10>>],
                     [k |-> Cy, v |-> <<10, 7>>] >>
    /\ classResults[1].v
       = << [name |-> Cy, scores |-> <<10, 7>>, total |-> 17],
            [name |-> Bo, scores |-> <<5, 5>>, total |-> 10],
            [name |-> Al, scores |-> <<10>>, total |-> 10] >>

====
